---- MODULE Spec2Model ----
(***************************************************************************)
(* Model of lib/drivers/mongodb/index.js (MongoDBDriver): doBackup,        *)
(* doRestore and their helpers.                                            *)
(*                                                                         *)
(* Names.  A collection or file name is the sequence of its dot-separated  *)
(* segments: "system.indexes" is <<"system","indexes">> and the file       *)
(* "a.json" is <<"a","json">>.  No segment of the alphabet used here has a *)
(* format or "system" as a proper prefix or suffix, so the string tests of *)
(* the source (endsWith, replace, the regular expression) are exact on     *)
(* segments.                                                               *)
(*                                                                         *)
(* Documents are counted, not stored: a collection or a file is the number *)
(* of documents it holds.                                                  *)
(*                                                                         *)
(* One action is one turn of the JavaScript event loop: the callback that  *)
(* an I/O completion runs together with every synchronous statement and    *)
(* every promise continuation that follows it, up to the next await on     *)
(* I/O.                                                                    *)
(***************************************************************************)
EXTENDS Integers, Sequences, FiniteSets, TLC

\* ---- bounds ------------------------------------------------------------
MaxDocs == 1
MaxFiles == 2
MaxRuns == 2
\* batches of one bulkWrite (each can report one write-concern error)
MaxBatches == 1

\* ---- names -------------------------------------------------------------
CollA == <<"a">>
CollB == <<"b">>
CollSys == <<"system", "indexes">>
CollNames == {CollA, CollB, CollSys}

\* constants.js FORMATS, in Object.values order
FORMATS == <<"json", "csv">>

FileNames == {<<"a", "json">>, <<"system", "indexes", "json">>, <<"a", "txt">>,
              <<"a", "json", "b", "json">>}

EmptyFn == [x \in {} |-> 0]
Without(f, c) == [x \in DOMAIN f \ {c} |-> f[x]]
Perms(S) == {s \in [1..Cardinality(S) -> S] : \A i, j \in 1..Cardinality(S) : s[i] = s[j] => i = j}

DBs == UNION {[S -> 0..MaxDocs] : S \in SUBSET CollNames}
\* target databases: a user collection and a system collection, present or
\* not, each holding MaxDocs
TargetDBs == UNION {[S -> {MaxDocs}] : S \in SUBSET {CollA, CollSys}}
\* directories: a file with a known suffix holds 0..MaxDocs documents; the
\* content of any other file is never read and is left at MaxDocs
Dirs == UNION {{d \in [S -> 0..MaxDocs] :
                  \A f \in S : f[Len(f)] \notin {FORMATS[i] : i \in 1..Len(FORMATS)} => d[f] = MaxDocs} :
               S \in {T \in SUBSET FileNames : Cardinality(T) <= MaxFiles}}

\* ---- pure helpers ------------------------------------------------------
\* systemRegex = /^.*system\..*$/ : the name contains "system."
_systemCollectionNever(collectionName) == FALSE
_systemCollection(collectionName) ==
    \E i \in 1..(Len(collectionName) - 1) : collectionName[i] = "system"

\* fileName.endsWith(`.${key}`)
EndsWith(fileName, key) == Len(fileName) >= 2 /\ fileName[Len(fileName)] = key

NoFormat == "null"
RECURSIVE Reduce(_, _, _)
Reduce(fileName, i, dataFormat) ==
    IF i > Len(FORMATS) THEN dataFormat
    ELSE Reduce(fileName, i + 1, IF EndsWith(fileName, FORMATS[i]) THEN FORMATS[i] ELSE dataFormat)
_getDataFormatDefault(fileName) == Reduce(fileName, 1, FORMATS[1])
_getDataFormat(fileName) == Reduce(fileName, 1, NoFormat)

\* file.replace(`.${dataFormat}`, '') : removes the FIRST occurrence of ".fmt"
RemoveAt(s, i) == [j \in 1..(Len(s) - 1) |-> IF j < i THEN s[j] ELSE s[j + 1]]
StripExt(file, dataFormat) ==
    LET hits == {i \in 2..Len(file) : file[i] = dataFormat}
    IN IF hits = {} THEN file
       ELSE RemoveAt(file, CHOOSE i \in hits : \A j \in hits : i <= j)

\* `${backupFolder}/${collection.collectionName}.${this.format}`
FileOf(collectionName, format) == Append(collectionName, format)

\* ---- state -------------------------------------------------------------
VARIABLES
    source,     \* database of the backing-up driver: collectionName -> #documents
    db,         \* database of the restoring driver:  collectionName -> #documents
    dir,        \* a restore directory supplied by the operator: file -> #documents
    bdir,       \* backup folders by run: run -> (file -> #documents written)
    mkdirs,     \* fs.mkdirSync calls that succeeded in the current backup run
    op,         \* "none", "backup", "restore": the operation in progress or last run
    pc,         \* position of the operation
    run,        \* number of operations started
    path,       \* restore source: 0 is dir, r > 0 is the folder of backup run r
    format,     \* this.format of the backing-up driver
    result,     \* the string doBackup / doRestore resolved with
    worklist,   \* collections / files still to shift()
    cur,        \* collection (backup) or file (restore) being transferred
    remaining,  \* backup: documents the cursor has not yet emitted;
                \* restore: documents decoded from the file
    ws,         \* write streams: <<run, file>> -> [pending, st]
    spinner,    \* TRUE while a Spinner is running
    dropList,   \* runs whose db.collections() of _dropCollections is in flight
    drops,      \* collection.drop() requests in flight: <<run, collectionName>>
    created,    \* collections created or loaded by the current restore run
    dropped,    \* collections whose drop by the current restore run has completed
    startDb,    \* db when the current restore run started
    log,        \* logInfo lines of the current run
    opened,     \* files opened by createWriteStream in the current backup run
    errAt,      \* the read-stream error of the current run, if any
    prev,       \* the previous operation: what it was and how it ended
    wfailed,    \* write streams of the current backup run that failed
    conn,       \* what the connect callback of the current run received
    results     \* what the last bulkWrite of the current run resolved with

vars == <<source, db, dir, bdir, mkdirs, op, pc, run, path, format, result,
          worklist, cur, remaining, ws, spinner, dropList, drops,
          created, dropped, startDb, log, opened, errAt, prev, wfailed,
          conn, results>>

None == [kind |-> "none", msg |-> "", name |-> <<>>]
NoResults == [insertedCount |-> 0, writeErrors |-> 0, writeConcernErrors |-> 0]
NoErr == [set |-> FALSE, name |-> <<>>, n |-> 0]
NoPrev == [op |-> "none", path |-> 0, kind |-> "none", clean |-> TRUE]
\* no report of the run counts a write error or a write-concern error
LogClean == \A i \in 1..Len(log) : log[i].errs = 0
\* no I/O of an earlier operation is still in flight
Quiet ==
    /\ dropList = {} /\ drops = {}
    /\ \A k \in DOMAIN ws : ws[k].pending = 0 /\ ws[k].st # "ended"

\* the two scenarios explored: a database to back up (and an empty target to
\* restore the backup into), or a target database and a directory to restore
Init ==
    /\ \/ source \in DBs /\ db = EmptyFn /\ dir = EmptyFn
       \/ source = EmptyFn /\ db \in TargetDBs /\ dir \in Dirs
    /\ bdir = EmptyFn /\ mkdirs = 0
    /\ op = "none" /\ pc = "idle" /\ run = 0 /\ path = 0 /\ format = FORMATS[1]
    /\ result = None
    /\ worklist = <<>> /\ cur = <<>> /\ remaining = 0
    /\ ws = EmptyFn /\ spinner = FALSE
    /\ dropList = {} /\ drops = {}
    /\ created = {} /\ dropped = {} /\ startDb = EmptyFn
    /\ log = <<>> /\ opened = <<>> /\ errAt = NoErr /\ prev = NoPrev /\ wfailed = {}
    /\ conn = "none" /\ results = NoResults

\* ---- doBackup ---------------------------------------------------------
BackupReady == [kind |-> "BackupReady", msg |-> "Backup is ready. Path to backup is", name |-> <<>>]
BackupError(msg, name) == [kind |-> "BackupError", msg |-> msg, name |-> name]

\* an operation starts once the previous one has returned and its I/O has
\* settled; the history of the previous run is forgotten, and so are its
\* write streams, none of which will write again
StartCommon ==
    /\ pc \in {"idle", "done"}
    /\ Quiet
    /\ run < MaxRuns
    /\ run' = run + 1
    /\ result' = None
    /\ prev' = [op |-> op, path |-> path, kind |-> result.kind, clean |-> LogClean]
    /\ worklist' = <<>> /\ cur' = <<>> /\ remaining' = 0
    /\ log' = <<>> /\ opened' = <<>> /\ errAt' = NoErr /\ wfailed' = {}
    /\ created' = {} /\ dropped' = {} /\ mkdirs' = 0
    /\ conn' = "pending" /\ results' = NoResults
    /\ ws' = EmptyFn

\* doBackup(): MongoClient.connect is issued
StartBackup ==
    /\ StartCommon
    /\ op' = "backup" /\ pc' = "bConnect"
    /\ format' \in {FORMATS[i] : i \in 1..Len(FORMATS)}
    /\ path' = 0 /\ startDb' = EmptyFn
    /\ UNCHANGED <<source, db, dir, bdir, spinner, dropList, drops>>

BConnectErrIgnored ==
    /\ pc = "bConnect"
    /\ conn' = "err"
    /\ pc' = "bList1"
    /\ UNCHANGED <<source, db, dir, bdir, mkdirs, op, run, path, format, result, worklist,
                   cur, remaining, ws, spinner, dropList, drops, created, dropped,
                   startDb, log, opened, errAt, prev, wfailed, results>>
\* connect callback with (err, undefined): client.db throws a TypeError,
\* caught and rejected
BConnectErr ==
    /\ pc = "bConnect"
    /\ conn' = "err"
    /\ pc' = "done"
    /\ result' = BackupError("TypeError", <<>>)
    /\ UNCHANGED <<source, db, dir, bdir, mkdirs, op, run, path, format, worklist, cur,
                   remaining, ws, spinner, dropList, drops, created, dropped, startDb,
                   log, opened, errAt, prev, wfailed,
                   results>>

\* connect callback with a client: db.collections() is awaited
BConnectOk ==
    /\ pc = "bConnect"
    /\ conn' = "ok"
    /\ pc' = "bList1"
    /\ UNCHANGED <<source, db, dir, bdir, mkdirs, op, run, path, format, result, worklist,
                   cur, remaining, ws, spinner, dropList, drops, created, dropped,
                   startDb, log, opened, errAt, prev, wfailed,
                   results>>

BListEmptyUnchecked ==
    /\ pc = "bList1"
    /\ DOMAIN source = {}
    /\ pc' = "bList2"
    /\ UNCHANGED <<source, db, dir, bdir, mkdirs, op, run, path, format, result, worklist,
                   cur, remaining, ws, spinner, dropList, drops, created, dropped,
                   startDb, log, opened, errAt, prev, wfailed,
                   conn, results>>
\* collections.length === 0: reject('Database is empty')
BListEmpty ==
    /\ pc = "bList1"
    /\ DOMAIN source = {}
    /\ pc' = "done"
    /\ result' = BackupError("Database is empty", <<>>)
    /\ UNCHANGED <<source, db, dir, bdir, mkdirs, op, run, path, format, worklist, cur,
                   remaining, ws, spinner, dropList, drops, created, dropped, startDb,
                   log, opened, errAt, prev, wfailed,
                   conn, results>>

\* otherwise _backupCollections(db) is called and awaits db.collections()
BListSome ==
    /\ pc = "bList1"
    /\ DOMAIN source # {}
    /\ pc' = "bList2"
    /\ UNCHANGED <<source, db, dir, bdir, mkdirs, op, run, path, format, result, worklist,
                   cur, remaining, ws, spinner, dropList, drops, created, dropped,
                   startDb, log, opened, errAt, prev, wfailed,
                   conn, results>>

\* the iterations of the while loop that shift a system collection
RECURSIVE SkipSystem(_)
SkipSystem(collections) ==
    IF collections # <<>> /\ _systemCollection(Head(collections))
    THEN SkipSystem(Tail(collections)) ELSE collections

\* the while loop of _backupCollections from its test up to the next await
\* (the call of _backupCollection: spinner, createWriteStream, find().stream,
\* pipe) or up to the return and the resolution of doBackup
BackupLoop(collections, wsBase, bdirBase) ==
    LET rest == SkipSystem(collections) IN
    IF rest = <<>>
    THEN /\ pc' = "done" /\ result' = BackupReady
         /\ worklist' = <<>> /\ cur' = <<>> /\ remaining' = 0
         /\ ws' = wsBase /\ bdir' = bdirBase /\ opened' = opened
         /\ spinner' = FALSE
    ELSE LET collection == Head(rest)
             fileName == FileOf(collection, format)
         IN /\ pc' = "bStream" /\ result' = result
            /\ worklist' = Tail(rest) /\ cur' = collection
            /\ remaining' = source[collection]
            /\ ws' = [k \in DOMAIN wsBase \cup {<<run, fileName>>} |->
                        IF k = <<run, fileName>> THEN [pending |-> 0, st |-> "open"]
                        ELSE wsBase[k]]
            /\ bdir' = [bdirBase EXCEPT ![run] =
                        [f \in DOMAIN bdirBase[run] \cup {fileName} |->
                            IF f = fileName THEN 0 ELSE bdirBase[run][f]]]
            /\ opened' = Append(opened, fileName)
            /\ spinner' = TRUE

BMkdirFailIgnored ==
    /\ pc = "bList2"
    /\ \E collections \in Perms(DOMAIN source) :
          BackupLoop(collections, ws, [r \in DOMAIN bdir \cup {run} |->
                                        IF r = run THEN EmptyFn ELSE bdir[r]])
    /\ UNCHANGED <<source, db, dir, mkdirs, op, run, path, format, dropList, drops,
                   created, dropped, startDb, log, errAt, prev, wfailed, conn, results>>
\* fs.mkdirSync(backupFolder) throws: caught in doBackup and rejected
BMkdirFail ==
    /\ pc = "bList2"
    /\ pc' = "done"
    /\ result' = BackupError("mkdir", <<>>)
    /\ UNCHANGED <<source, db, dir, bdir, mkdirs, op, run, path, format, worklist, cur,
                   remaining, ws, spinner, dropList, drops, created, dropped, startDb,
                   log, opened, errAt, prev, wfailed,
                   conn, results>>

\* _backupCollections: the collections are listed (in the driver's order),
\* the folder is made and the loop starts
BMkdirOk ==
    /\ pc = "bList2"
    /\ mkdirs' = mkdirs + 1
    /\ \E collections \in Perms(DOMAIN source) :
          BackupLoop(collections, ws, [r \in DOMAIN bdir \cup {run} |->
                                        IF r = run THEN EmptyFn ELSE bdir[r]])
    /\ UNCHANGED <<source, db, dir, op, run, path, format, dropList, drops, created,
                   dropped, startDb, log, errAt, prev, wfailed,
                   conn, results>>

\* ---- _backupCollection: the streams --------------------------------------
CurKey == <<run, FileOf(cur, format)>>

\* pipe(readStream, writeStream) of the format's backup options: documents
\* flow from the cursor to the file while the destination accepts them; the
\* end of the cursor ends the destination
PipeFlows(k) == k \in DOMAIN ws /\ ws[k].st = "open"

\* the cursor emits one document; transform encodes it and pipe hands it to
\* the write stream, where it waits to be written
BRead ==
    /\ pc = "bStream"
    /\ remaining > 0
    /\ PipeFlows(CurKey)
    /\ remaining' = remaining - 1
    /\ ws' = [ws EXCEPT ![CurKey].pending = @ + 1]
    /\ UNCHANGED <<source, db, dir, bdir, mkdirs, op, pc, run, path, format, result,
                   worklist, cur, spinner, dropList, drops, created, dropped, startDb,
                   log, opened, errAt, prev, wfailed,
                   conn, results>>

\* the write stream writes one waiting document to its file
BFlush(k) ==
    /\ ws[k].st \in {"open", "ended"}
    /\ ws[k].pending > 0
    /\ ws' = [ws EXCEPT ![k].pending = @ - 1]
    /\ bdir' = [bdir EXCEPT ![k[1]][k[2]] = @ + 1]
    /\ UNCHANGED <<source, db, dir, mkdirs, op, pc, run, path, format, result, worklist,
                   cur, remaining, spinner, dropList, drops, created, dropped, startDb,
                   log, opened, errAt, prev, wfailed,
                   conn, results>>

\* an ended write stream with nothing waiting finishes and closes its file
BFinish(k) ==
    /\ ws[k].st = "ended"
    /\ ws[k].pending = 0
    /\ ws' = [ws EXCEPT ![k].st = "finished"]
    /\ UNCHANGED <<source, db, dir, bdir, mkdirs, op, pc, run, path, format, result,
                   worklist, cur, remaining, spinner, dropList, drops, created, dropped,
                   startDb, log, opened, errAt, prev, wfailed,
                   conn, results>>

\* a write to the file fails: the write stream errors; _backupCollection has
\* no listener on it
BWriteFail(k) ==
    /\ ws[k].st \in {"open", "ended"}
    /\ ws[k].pending > 0
    /\ ws' = [ws EXCEPT ![k] = [pending |-> 0, st |-> "failed"]]
    /\ wfailed' = IF k[1] = run /\ op = "backup" THEN wfailed \cup {k[2]} ELSE wfailed
    /\ UNCHANGED <<source, db, dir, bdir, mkdirs, op, pc, run, path, format, result,
                   worklist, cur, remaining, spinner, dropList, drops, created, dropped,
                   startDb, log, opened, errAt, prev,
                   conn, results>>

\* readStream 'end': spinner.stop(), resolve(); the loop of
\* _backupCollections goes on
BEnd ==
    /\ pc = "bStream"
    /\ remaining = 0
    /\ PipeFlows(CurKey)
    /\ BackupLoop(worklist, [ws EXCEPT ![CurKey].st = "ended"], bdir)
    /\ UNCHANGED <<source, db, dir, mkdirs, op, run, path, format, dropList, drops,
                   created, dropped, startDb, log, errAt, prev, wfailed,
                   conn, results>>
\* readStream 'error': spinner.stop(), reject(`Can't back up ...`); the await
\* in _backupCollections throws, doBackup's catch rejects
BReadErrorSwallowed ==
    /\ pc = "bStream"
    /\ errAt' = [set |-> TRUE, name |-> cur, n |-> Len(opened)]
    /\ BackupLoop(worklist, ws, bdir)
    /\ UNCHANGED <<source, db, dir, mkdirs, op, run, path, format, dropList, drops,
                   created, dropped, startDb, log, prev, wfailed,
                   conn, results>>
BReadError ==
    /\ pc = "bStream"
    /\ spinner' = FALSE
    /\ pc' = "done"
    /\ result' = BackupError("Can't back up", cur)
    /\ errAt' = [set |-> TRUE, name |-> cur, n |-> Len(opened)]
    /\ UNCHANGED <<source, db, dir, bdir, mkdirs, op, run, path, format, worklist, cur,
                   remaining, ws, dropList, drops, created, dropped, startDb, log,
                   opened, prev, wfailed,
                   conn, results>>

\* ---- doRestore -----------------------------------------------------------
Restored == [kind |-> "Restored", msg |-> "Database restored", name |-> <<>>]
RestoreError(msg, name) == [kind |-> "RestoreError", msg |-> msg, name |-> name]

\* the directory this.path names
Content(p) == IF p = 0 THEN dir ELSE bdir[p]

\* doRestore(): MongoClient.connect is issued
StartRestore ==
    /\ StartCommon
    /\ op' = "restore" /\ pc' = "rConnect"
    /\ path' \in {0} \cup DOMAIN bdir
    /\ startDb' = db
    /\ UNCHANGED <<source, db, dir, bdir, format, spinner, dropList, drops>>

\* connect callback with (err, undefined): client.db throws, caught, rejected
RConnectErr ==
    /\ pc = "rConnect"
    /\ conn' = "err"
    /\ pc' = "done"
    /\ result' = RestoreError("TypeError", <<>>)
    /\ UNCHANGED <<source, db, dir, bdir, mkdirs, op, run, path, format, worklist, cur,
                   remaining, ws, spinner, dropList, drops, created, dropped, startDb,
                   log, opened, errAt, prev, wfailed,
                   results>>

RConnectEmptyAfterDrop ==
    /\ pc = "rConnect"
    /\ conn' = "ok"
    /\ DOMAIN Content(path) = {}
    /\ dropList' = dropList \cup {run}
    /\ pc' = "done"
    /\ result' = RestoreError("Files are not fould in backup folder", <<>>)
    /\ UNCHANGED <<source, db, dir, bdir, mkdirs, op, run, path, format, worklist, cur,
                   remaining, ws, spinner, drops, created, dropped, startDb, log,
                   opened, errAt, prev, wfailed, results>>
\* files.length === 0: reject('Files are not fould in backup folder')
RConnectEmpty ==
    /\ pc = "rConnect"
    /\ conn' = "ok"
    /\ DOMAIN Content(path) = {}
    /\ pc' = "done"
    /\ result' = RestoreError("Files are not fould in backup folder", <<>>)
    /\ UNCHANGED <<source, db, dir, bdir, mkdirs, op, run, path, format, worklist, cur,
                   remaining, ws, spinner, dropList, drops, created, dropped, startDb,
                   log, opened, errAt, prev, wfailed,
                   results>>

SkipLine(file) == [kind |-> "skip", name |-> file, n |-> 0, errs |-> 0]
InsertedLine(name, n, errs) == [kind |-> "inserted", name |-> name, n |-> n, errs |-> errs]

\* the iterations of the while loop of _restoreCollections that `continue`
RECURSIVE SkipUnknown(_)
SkipUnknown(files) ==
    IF files # <<>> /\ _getDataFormat(Head(files)) = NoFormat
    THEN SkipUnknown(Tail(files)) ELSE files
RECURSIVE SkipLog(_, _)
SkipLog(files, lines) ==
    IF files # <<>> /\ _getDataFormat(Head(files)) = NoFormat
    THEN SkipLog(Tail(files), Append(lines, SkipLine(Head(files)))) ELSE lines

\* the while loop of _restoreCollections from its test up to the await of
\* db.createCollection, or up to the return and the resolution of doRestore
RestoreLoop(files, lines) ==
    LET rest == SkipUnknown(files) IN
    /\ log' = SkipLog(files, lines)
    /\ IF rest = <<>>
       THEN /\ pc' = "done" /\ result' = Restored
            /\ worklist' = <<>> /\ cur' = <<>>
       ELSE /\ pc' = "rCreate" /\ result' = result
            /\ worklist' = Tail(rest) /\ cur' = Head(rest)

\* connect callback with a client and a non-empty directory:
\* _dropCollections(db) issues db.collections() and returns undefined, so the
\* await on it does not wait; _restoreCollections lists the files and starts
RConnectStart ==
    /\ pc = "rConnect"
    /\ conn' = "ok"
    /\ DOMAIN Content(path) # {}
    /\ dropList' = dropList \cup {run}
    /\ \E files \in Perms(DOMAIN Content(path)) : RestoreLoop(files, log)
    /\ UNCHANGED <<source, db, dir, bdir, mkdirs, op, run, path, format, remaining, ws,
                   spinner, drops, created, dropped, startDb, opened, errAt, prev,
                   wfailed,
                   results>>

\* _dropCollections: db.collections() resolves; forEach issues a drop for
\* every non-system collection, none of them awaited by anyone
DropList(r) ==
    /\ r \in dropList
    /\ dropList' = dropList \ {r}
    /\ drops' = drops \cup {<<r, c>> : c \in {n \in DOMAIN db : ~_systemCollection(n)}}
    /\ UNCHANGED <<source, db, dir, bdir, mkdirs, op, pc, run, path, format, result,
                   worklist, cur, remaining, ws, spinner, created, dropped, startDb,
                   log, opened, errAt, prev, wfailed,
                   conn, results>>

\* a collection.drop() takes effect on the server
ApplyDrop(d) ==
    /\ d \in drops
    /\ drops' = drops \ {d}
    /\ db' = Without(db, d[2])
    /\ dropped' = IF d[1] = run THEN dropped \cup {d[2]} ELSE dropped
    /\ UNCHANGED <<source, dir, bdir, mkdirs, op, pc, run, path, format, result, worklist,
                   cur, remaining, ws, spinner, dropList, created, startDb, log, opened,
                   errAt, prev, wfailed,
                   conn, results>>

CurColl == StripExt(cur, _getDataFormat(cur))

\* db.createCollection(collectionName) resolves (an existing collection is
\* returned as it is); _restoreCollection starts: spinner, createReadStream,
\* readData awaited
RCreate ==
    /\ pc = "rCreate"
    /\ db' = IF CurColl \in DOMAIN db THEN db ELSE db @@ (CurColl :> 0)
    /\ created' = created \cup {CurColl}
    /\ spinner' = TRUE
    /\ pc' = "rRead"
    /\ UNCHANGED <<source, dir, bdir, mkdirs, op, run, path, format, result, worklist,
                   cur, remaining, ws, dropList, drops, dropped, startDb, log, opened,
                   errAt, prev, wfailed,
                   conn, results>>

\* readData resolves with the documents of the file and bulkWrite is called
\* with one insertOne per document
RReadDocs ==
    /\ pc = "rRead"
    /\ Content(path)[cur] > 0
    /\ remaining' = Content(path)[cur]
    /\ pc' = "rBulk"
    /\ UNCHANGED <<source, db, dir, bdir, mkdirs, op, run, path, format, result, worklist,
                   cur, ws, spinner, dropList, drops, created, dropped, startDb, log,
                   opened, errAt, prev, wfailed,
                   conn, results>>

\* readData resolves with no document: bulkWrite([]) fails with 'Invalid
\* Operation, no operations specified' inside the async executor, whose
\* promise nobody observes: neither resolve nor reject is ever called
RReadEmpty ==
    /\ pc = "rRead"
    /\ Content(path)[cur] = 0
    /\ remaining' = 0
    /\ pc' = "rHung"
    /\ UNCHANGED <<source, db, dir, bdir, mkdirs, op, run, path, format, result, worklist,
                   cur, ws, spinner, dropList, drops, created, dropped, startDb, log,
                   opened, errAt, prev, wfailed,
                   conn, results>>

\* readStream 'error': spinner.stop() and reject(`Can't restore ...`); the
\* await in _restoreCollections throws and doRestore's catch rejects
RReadError ==
    /\ pc = "rRead"
    /\ spinner' = FALSE
    /\ pc' = "done"
    /\ result' = RestoreError("Can't restore", CurColl)
    /\ errAt' = [set |-> TRUE, name |-> cur, n |-> Len(log)]
    /\ UNCHANGED <<source, db, dir, bdir, mkdirs, op, run, path, format, worklist, cur,
                   remaining, ws, dropList, drops, created, dropped, startDb, log,
                   opened, prev, wfailed,
                   conn, results>>

\* what an ordered bulkWrite of n insertOne operations can resolve with: all
\* inserted, or the documents before the first write error inserted and that
\* error reported; each batch may add a write-concern error
BulkResults(n) ==
    {[insertedCount |-> i, writeErrors |-> IF i = n THEN 0 ELSE 1, writeConcernErrors |-> w] :
        i \in 0..n, w \in 0..MaxBatches}

\* bulkWrite resolves: the documents are inserted (into a collection the
\* server creates again if it was dropped meanwhile), spinner.stop(),
\* resolve(results), the counts are logged and the loop goes on
RBulkNoConcern ==
    /\ pc = "rBulk"
    /\ \E r \in BulkResults(remaining) :
          /\ results' = r
          /\ db' = IF CurColl \in DOMAIN db
                   THEN [db EXCEPT ![CurColl] = @ + r.insertedCount]
                   ELSE db @@ (CurColl :> r.insertedCount)
          /\ RestoreLoop(worklist, Append(log, InsertedLine(CurColl, r.insertedCount,
                                                            r.writeErrors)))
    /\ created' = created \cup {CurColl}
    /\ spinner' = FALSE
    /\ remaining' = 0
    /\ UNCHANGED <<source, dir, bdir, mkdirs, op, run, path, format, ws, dropList, drops,
                   dropped, startDb, opened, errAt, prev, wfailed,
                   conn>>
RBulk ==
    /\ pc = "rBulk"
    /\ \E r \in BulkResults(remaining) :
          /\ results' = r
          /\ db' = IF CurColl \in DOMAIN db
                   THEN [db EXCEPT ![CurColl] = @ + r.insertedCount]
                   ELSE db @@ (CurColl :> r.insertedCount)
          /\ RestoreLoop(worklist, Append(log, InsertedLine(CurColl, r.insertedCount,
                                          r.writeErrors + r.writeConcernErrors)))
    /\ created' = created \cup {CurColl}
    /\ spinner' = FALSE
    /\ remaining' = 0
    /\ UNCHANGED <<source, dir, bdir, mkdirs, op, run, path, format, ws, dropList, drops,
                   dropped, startDb, opened, errAt, prev, wfailed,
                   conn>>

\* ---- specification -------------------------------------------------------
Next ==
    \/ StartBackup
    \/ BConnectErr
    \/ BConnectOk
    \/ BListEmpty
    \/ BListSome
    \/ BMkdirFail
    \/ BMkdirOk
    \/ BRead
    \/ \E k \in DOMAIN ws : BFlush(k)
    \/ \E k \in DOMAIN ws : BFinish(k)
    \/ \E k \in DOMAIN ws : BWriteFail(k)
    \/ BEnd
    \/ BReadError
    \/ StartRestore
    \/ RConnectErr
    \/ RConnectEmpty
    \/ RConnectStart
    \/ \E r \in dropList : DropList(r)
    \/ \E d \in drops : ApplyDrop(d)
    \/ RCreate
    \/ RReadDocs
    \/ RReadEmpty
    \/ RReadError
    \/ RBulk

Spec == Init /\ [][Next]_vars

\* ---- properties ----------------------------------------------------------
\* the reserved naming pattern and the recognized suffixes, stated on their own
Reserved(name) == \E i \in 1..(Len(name) - 1) : name[i] = "system"
Recognized(file) == Len(file) >= 2 /\ file[Len(file)] \in {"json", "csv"}
Eligible(d) == [c \in {n \in DOMAIN d : ~Reserved(n)} |-> d[c]]
NameOf(file) == StripExt(file, file[Len(file)])
InsertedNames == {log[i].name : i \in {j \in 1..Len(log) : log[j].kind = "inserted"}}

\* C1: in every restore run the drop of every existing non-system collection
\* of the target has completed before any collection is created or loaded
C1_DropsBeforeCreate ==
    (op = "restore" /\ created # {}) =>
        {c \in DOMAIN startDb : ~Reserved(c)} \subseteq dropped

\* C2: a second successful restore of the same directory, started and ended
\* with no request in flight, neither run reporting a write error, leaves
\* every non-system collection with the document count the first restore left
C2_RestoreIdempotent ==
    (/\ op = "restore" /\ pc = "done" /\ result.kind = "Restored"
     /\ prev.op = "restore" /\ prev.kind = "Restored" /\ prev.path = path
     /\ prev.clean /\ LogClean
     /\ Quiet)
    => Eligible(db) = Eligible(startDb)

\* C3: a restore of the folder of the preceding successful backup into an
\* empty target settles, and when it has returned 'Database restored' and its
\* requests have settled with no write error reported, the target holds the
\* eligible collections of the source with the source's document counts
C3_RoundTrip ==
    (/\ op = "restore" /\ path # 0 /\ path = run - 1
     /\ prev.op = "backup" /\ prev.kind = "BackupReady"
     /\ DOMAIN startDb = {})
    => /\ pc # "rHung"
       /\ (pc = "done" /\ result.kind = "Restored" /\ LogClean /\ Quiet) =>
             db = Eligible(source)

\* C4: a read-stream error on one file does not abort the restore: the other
\* recognized files are loaded and doRestore returns 'Database restored'
C4_FileFailureIsolated ==
    (/\ op = "restore" /\ errAt.set /\ pc = "done"
     /\ \E f \in DOMAIN Content(path) \ {errAt.name} : Recognized(f)) =>
        /\ result.kind = "Restored"
        /\ worklist = <<>>
        /\ \A f \in DOMAIN Content(path) \ {errAt.name} :
              Recognized(f) => NameOf(f) \in InsertedNames

\* C5: no backup file is written for a system-reserved collection, no such
\* collection is dropped, and none is created or loaded by restore
C5_SystemExcluded ==
    /\ \A r \in DOMAIN bdir : \A f \in DOMAIN bdir[r] : ~Reserved(NameOf(f))
    /\ \A d \in drops : ~Reserved(d[2])
    /\ \A c \in dropped \cup created : ~Reserved(c)

\* C6: a backup that reports success has made exactly one file per eligible
\* collection of the database, named {collectionName}.{format}, and no other
C6_OneFilePerCollection ==
    (op = "backup" /\ result.kind = "BackupReady") =>
        /\ DOMAIN bdir[run] = {Append(c, format) : c \in DOMAIN Eligible(source)}
        /\ Cardinality(DOMAIN bdir[run]) = Cardinality(DOMAIN Eligible(source))
        /\ Len(opened) = Cardinality(DOMAIN Eligible(source))
C6_Witness ==
    /\ op = "backup" /\ result.kind = "BackupReady"
    /\ Cardinality(DOMAIN Eligible(source)) = 2
    /\ DOMAIN source # DOMAIN Eligible(source)

\* C7: the backup of a database with no collection never makes the backup
\* folder nor starts a transfer, and once connected it returns the failure
\* carrying 'Database is empty'
C7_EmptyDatabase ==
    (op = "backup" /\ DOMAIN source = {}) =>
        /\ mkdirs = 0 /\ run \notin DOMAIN bdir
        /\ opened = <<>> /\ pc \notin {"bList2", "bStream"}
        /\ (pc = "done" /\ result.msg # "TypeError") =>
              result = BackupError("Database is empty", <<>>)
C7_Witness ==
    /\ op = "backup" /\ DOMAIN source = {} /\ pc = "done"
    /\ result.kind = "BackupError" /\ result.msg = "Database is empty"

\* C8: after a read-stream error on a collection the backup has returned the
\* failure naming that collection, and no file is opened after the error
C8_ReadErrorAborts ==
    (op = "backup" /\ errAt.set) =>
        /\ pc = "done"
        /\ result = BackupError("Can't back up", errAt.name)
        /\ Len(opened) = errAt.n
        /\ opened[Len(opened)] = Append(errAt.name, format)
C8_Witness ==
    /\ op = "backup" /\ errAt.set /\ pc = "done"
    /\ \E i \in 1..Len(worklist) : ~Reserved(worklist[i])

\* C9: a backup in which a write stream has failed never returns the
\* 'Backup is ready' result
C9_WriteFailureFatal ==
    (op = "backup" /\ wfailed # {}) => result.kind # "BackupReady"

\* C10: a file with an unrecognized extension is never transferred: it
\* creates and loads nothing and is not the cause of a failure; a restore
\* that returns 'Database restored' has logged every unrecognized file and
\* loaded every recognized one, and a directory of unrecognized files only
\* is restored successfully
C10_UnrecognizedSkipped ==
    op = "restore" =>
        /\ pc \in {"rCreate", "rRead", "rBulk", "rHung"} => Recognized(cur)
        /\ created \subseteq {NameOf(f) : f \in {g \in DOMAIN Content(path) : Recognized(g)}}
        /\ errAt.set => Recognized(errAt.name)
        /\ (pc = "done" /\ result.kind = "Restored") =>
              \A f \in DOMAIN Content(path) :
                 IF Recognized(f)
                 THEN \E i \in 1..Len(log) :
                         log[i].kind = "inserted" /\ log[i].name = NameOf(f)
                 ELSE \E i \in 1..Len(log) : log[i] = SkipLine(f)
        /\ (/\ pc = "done" /\ result.msg # "TypeError"
            /\ DOMAIN Content(path) # {}
            /\ \A f \in DOMAIN Content(path) : ~Recognized(f))
           => result.kind = "Restored"
C10_Witness ==
    /\ op = "restore" /\ pc = "done" /\ result.kind = "Restored"
    /\ \E f, g \in DOMAIN Content(path) : Recognized(f) /\ ~Recognized(g)

\* the file name without its last segment
Stem(file) == SubSeq(file, 1, Len(file) - 1)

\* C11: a restore never reaches a state in which its promise can no longer
\* settle: every invocation ends with a status string
C11_AlwaysSettles ==
    result.kind = "none" => pc # "rHung"

\* C14: every collection a restore creates or loads is named as a recognized
\* file of the directory with its format extension stripped
C14_NameIsStem ==
    op = "restore" =>
        created \subseteq {Stem(f) : f \in {g \in DOMAIN Content(path) : Recognized(g)}}

\* C15: a restore that has ended, by returning or by losing every way to
\* settle, has stopped its spinner
C15_RestoreSpinnerStopped ==
    (op = "restore" /\ pc \in {"done", "rHung"}) => ~spinner

\* C12: after a failed connect the operation has returned its failure string
\* and has made no folder, opened no stream, issued no drop, created no
\* collection and left the database as it was
C12_ConnectFailureAborts ==
    conn = "err" =>
        /\ pc = "done"
        /\ result.kind = (IF op = "backup" THEN "BackupError" ELSE "RestoreError")
        /\ mkdirs = 0 /\ run \notin DOMAIN bdir /\ opened = <<>> /\ ws = EmptyFn
        /\ ~spinner /\ log = <<>>
        /\ created = {} /\ dropped = {}
        /\ run \notin dropList /\ \A d \in drops : d[1] # run
        /\ op = "restore" => db = startDb
C12_Witness ==
    /\ conn = "err"
    /\ \/ op = "backup" /\ DOMAIN Eligible(source) # {}
       \/ op = "restore" /\ DOMAIN Eligible(db) # {} /\ DOMAIN Content(path) # {}

InsertedIdx == {j \in 1..Len(log) : log[j].kind = "inserted"}
RecognizedIn(files) == {i \in 1..Len(files) : Recognized(files[i])}

\* C13: while a file is being transferred, one report has been emitted for
\* each recognized file taken from the work list before it; the latest report
\* carries the insertedCount of the latest bulk write and the sum of its write
\* errors and write-concern errors; a report of no error carries the number
\* of documents of its file
C13_ReportAfterLoad ==
    op = "restore" =>
        /\ pc \in {"rCreate", "rRead", "rBulk"} =>
              Cardinality(InsertedIdx) + 1 + Cardinality(RecognizedIn(worklist))
                 = Cardinality({f \in DOMAIN Content(path) : Recognized(f)})
        /\ results # NoResults =>
              /\ InsertedIdx # {}
              /\ LET last == CHOOSE i \in InsertedIdx : \A j \in InsertedIdx : j <= i
                 IN /\ log[last].n = results.insertedCount
                    /\ log[last].errs = results.writeErrors + results.writeConcernErrors
        /\ \A i \in InsertedIdx :
              log[i].errs = 0 =>
                 \E f \in DOMAIN Content(path) :
                    /\ Recognized(f) /\ NameOf(f) = log[i].name
                    /\ log[i].n = Content(path)[f]
C13_Witness ==
    /\ op = "restore" /\ pc = "rCreate"
    /\ results.writeErrors > 0 /\ results.writeConcernErrors > 0

\* C16: a running backup spinner belongs to a transfer whose stream can
\* still reach the 'end' that stops it
C16_BackupSpinnerStopped ==
    (op = "backup" /\ spinner) =>
        /\ pc = "bStream"
        /\ ws[<<run, Append(cur, format)>>].st # "failed"

\* C17: at most one file handle is open at any instant
C17_OneHandle ==
    Cardinality({k \in DOMAIN ws : ws[k].st \in {"open", "ended"}}) <= 1

\* C18: a backup run makes its folder at most once and before it opens the
\* first file; when making the folder fails the run has returned the failure
\* string and no file is opened
C18_FolderOnceFirst ==
    op = "backup" =>
        /\ mkdirs <= 1
        /\ (mkdirs = 1) = (run \in DOMAIN bdir)
        /\ (opened # <<>> \/ pc = "bStream" \/ result.kind = "BackupReady") => mkdirs = 1
        /\ result.msg = "mkdir" =>
              /\ pc = "done" /\ result.kind = "BackupError"
              /\ mkdirs = 0 /\ opened = <<>> /\ ~spinner
C18_Witness ==
    op = "backup" /\ mkdirs = 1 /\ Len(opened) = 2

\* C19: when the backup has returned 'Backup is ready' every file of the run
\* holds all the documents of its collection
C19_FilesComplete ==
    (op = "backup" /\ result.kind = "BackupReady") =>
        \A f \in DOMAIN bdir[run] : bdir[run][f] = source[Stem(f)]

\* C20: a restore whose folder holds no file issues no drop, creates nothing
\* and leaves the database as it was; once connected it returns the failure
\* string
C20_EmptyFolderNoChange ==
    (op = "restore" /\ DOMAIN Content(path) = {}) =>
        /\ db = startDb
        /\ created = {} /\ dropped = {}
        /\ run \notin dropList /\ \A d \in drops : d[1] # run
        /\ (pc = "done" /\ conn = "ok") =>
              result = RestoreError("Files are not fould in backup folder", <<>>)
C20_Witness ==
    /\ op = "restore" /\ DOMAIN Content(path) = {} /\ pc = "done" /\ conn = "ok"
    /\ DOMAIN Eligible(db) # {}
====
